---- MODULE Spec2Model ----
(***************************************************************************)
(* e-json: a hand-written JSON encoder (class Encoder) and a recursive     *)
(* descent JSON parser (class Parser, reached through EJson.decode).       *)
(*                                                                         *)
(* Text is a sequence of one-character strings.  The encoder is a pure     *)
(* function of its argument and is modelled by operators applied in one    *)
(* action; the parser is modelled as a state machine over its cursor       *)
(* (input, pos) with an explicit stack for the recursion of parseValue.    *)
(***************************************************************************)
EXTENDS Integers, Sequences, FiniteSets, TLC

VARIABLES
    encIn,      \* the argument of Encoder.encode
    encOut,     \* what the call produced: pending, returned text or a throw
    input,      \* Parser.input
    pos,        \* Parser.pos (0-based offset of the current token)
    pc,         \* the parser's position in its code
    stack,      \* the open parse()/parseArray/parseObject activations
    str,        \* parseString's local "str"
    ret,        \* the value the last finished production returned
    status,     \* "run", "ok" (decode returned ret) or "fail" (decode threw)
    err         \* the production that threw

vars == <<encIn, encOut, input, pos, pc, stack, str, ret, status, err>>
encVars == <<encIn, encOut>>
decVars == <<input, pos, pc, stack, str, ret, status, err>>

(***************************************************************************)
(* Bounds                                                                  *)
(***************************************************************************)
MaxMembers == 3     \* members of an array or mapping handed to encode
MaxLen == 4         \* length of the exhaustively enumerated inputs of decode
MaxBody == 4        \* characters between the quotes of an enumerated string
PosSlack == 6       \* how far past the end of input the cursor is tracked

(***************************************************************************)
(* Text helpers                                                            *)
(***************************************************************************)
Digit == <<"0", "1", "2", "3", "4", "5", "6", "7", "8", "9">>

SeqsUpTo(S, n) == UNION {[1..k -> S] : k \in 0..n}

\* String(n) for a natural number n
RECURSIVE NumberToString(_)
NumberToString(n) ==
    IF n < 10 THEN <<Digit[n + 1]>>
    ELSE NumberToString(n \div 10) \o <<Digit[(n % 10) + 1]>>

(***************************************************************************)
(* Encoder: host values                                                    *)
(***************************************************************************)
Null == [t |-> "null"]
Undefined == [t |-> "undefined"]
NaNValue == [t |-> "nan"]
Num(n) == [t |-> "number", n |-> n]
Str(s) == [t |-> "string", s |-> s]
Bool(b) == [t |-> "boolean", b |-> b]
\* a callable returning r; num says whether the callable itself coerces to a
\* number (an own numeric valueOf), which no ordinary function does
Fn(r, num) == [t |-> "function", r |-> r, num |-> num]
\* a Date whose toString() is s
DateValue(s) == [t |-> "date", s |-> s]
Arr(items) == [t |-> "array", items |-> items]
\* a mapping with Object.entries = entries (<<key, value>> pairs) and
\* toString() = toStr
Obj(entries, toStr) == [t |-> "object", entries |-> entries, toStr |-> toStr]

ObjectObject ==
    <<"[", "o", "b", "j", "e", "c", "t", " ", "O", "b", "j", "e", "c", "t", "]">>
PlainObj(entries) == Obj(entries, ObjectObject)

\* what encodeValue hands back besides raw host values: built text, or a throw
Text(s) == [t |-> "text", s |-> s]
Thrown(e) == [t |-> "throw", err |-> e]

\* typeof value
TypeOf(v) ==
    CASE v.t \in {"null", "date", "array", "object"} -> "object"
      [] v.t = "nan" -> "number"
      [] v.t = "text" -> "string"
      [] OTHER -> v.t

IsArray(v) == v.t = "array"

IsDigitChar(c) == \E k \in 1..Len(Digit) : Digit[k] = c

\* isNaN(Number(s)) for a string over letters, digits and spaces: blanks are
\* trimmed, the empty string converts to 0 and a digit string to its value
StringIsNaN(s) ==
    LET solid == {i \in 1..Len(s) : s[i] # " "} IN
    \E i \in solid : \E j \in solid :
        \E k \in i..j : ~IsDigitChar(s[k])

\* !isNaN(+value), for the values that reach it (line 23)
NumericCoercible(v) ==
    CASE v.t = "number" -> TRUE
      [] v.t = "nan" -> FALSE
      [] v.t = "boolean" -> TRUE
      [] v.t = "string" -> ~StringIsNaN(v.s)
      [] v.t = "function" -> v.num
      [] v.t = "object" -> ~StringIsNaN(v.toStr)
      [] OTHER -> FALSE

\* the string a template literal or += makes of what encodeValue returned
ToStr(val) ==
    CASE val.t = "text" -> val.s
      [] val.t = "number" -> NumberToString(val.n)
      [] val.t = "boolean" ->
            IF val.b THEN <<"t", "r", "u", "e">> ELSE <<"f", "a", "l", "s", "e">>
      [] val.t = "string" -> val.s
      [] val.t = "object" -> val.toStr
      [] OTHER -> <<>>

withDoubleQuotes(s) == <<"\"">> \o s \o <<"\"">>

RECURSIVE encodeValue(_)
RECURSIVE encodeArrayFrom(_, _, _, _)
RECURSIVE encodeObjectFrom(_, _, _, _)

\* the loop of encodeArray from element k on, with locals arr and i
encodeArrayFrom(values, k, arr, i) ==
    IF k > Len(values) THEN Text(arr)
    ELSE LET val == encodeValue(values[k]) IN
         IF val.t = "throw" THEN val
         ELSE IF TypeOf(val) = "function"
              THEN encodeArrayFrom(values, k + 1, arr, i)
         ELSE LET arr1 == arr \o ToStr(val)
                  i1 == i + 1
                  arr2 == IF i1 <= Len(values) - 1
                          THEN arr1 \o <<",">>
                          ELSE arr1 \o <<"]">>
              IN encodeArrayFrom(values, k + 1, arr2, i1)

encodeArray(values) == encodeArrayFrom(values, 1, <<"[">>, 0)

\* the loop of encodeObject from entry k on, with locals obj and i
encodeObjectFrom(entries, k, obj, i) ==
    IF k > Len(entries) THEN Text(obj)
    ELSE LET val == encodeValue(entries[k][2]) IN
         IF val.t = "throw" THEN val
         ELSE IF TypeOf(val) = "function"
              THEN encodeObjectFrom(entries, k + 1, obj, i)
         ELSE LET pair == withDoubleQuotes(entries[k][1]) \o <<":">> \o ToStr(val)
                  obj1 == obj \o pair
                  i1 == i + 1
                  obj2 == IF i1 <= Len(entries) - 1
                          THEN obj1 \o <<",">>
                          ELSE obj1 \o <<"}">>
              IN encodeObjectFrom(entries, k + 1, obj2, i1)

encodeObject(value) ==
    IF value.toStr # ObjectObject
    THEN Text(withDoubleQuotes(value.toStr))
    ELSE encodeObjectFrom(value.entries, 1, <<"{">>, 0)

\* encodeFunction without the call: the callable itself is handed back
encodeFunctionNotCalled(val) == val

encodeFunction(val) == encodeValue(val.r)

encodeValue(value) ==
    IF IsArray(value) THEN encodeArray(value.items)
    ELSE IF value.t \in {"null", "undefined"} THEN Text(<<"n", "u", "l", "l">>)
    ELSE IF value.t = "date" THEN Text(withDoubleQuotes(value.s))
    ELSE IF NumericCoercible(value) THEN value
    ELSE CASE TypeOf(value) = "string" -> Text(withDoubleQuotes(value.s))
           [] TypeOf(value) = "object" -> encodeObject(value)
           [] TypeOf(value) = "boolean" ->
                 Text(withDoubleQuotes(ToStr(value)))
           [] TypeOf(value) = "function" -> encodeFunction(value)
           [] OTHER -> Thrown("UnexpectedValue")

encode(in) ==
    IF ~IsArray(in) /\ TypeOf(in) # "object"
    THEN Thrown("InvalidInput")
    ELSE encodeValue(in)


(***************************************************************************)
(* Encoder: the values encode is called with                               *)
(***************************************************************************)
EncScalars ==
    {Null, Num(1), Num(3), NaNValue, Str(<<"a">>), Str(<<"4", "2">>),
     Bool(TRUE), Bool(FALSE)}

EncCallables ==
    {Fn(Num(2), FALSE), Fn(Str(<<"a">>), FALSE), Fn(Fn(Num(2), FALSE), FALSE),
     Fn(Num(2), TRUE)}

EncNested ==
    {DateValue(<<"D">>), Arr(<<>>), Arr(<<Num(1)>>), PlainObj(<<>>),
     Obj(<<>>, <<"X">>)}

EncMembers == EncScalars \cup EncCallables \cup EncNested

EncKeys == <<"a", "b", "c", "d", "e", "f">>

EncArrays == {Arr(items) : items \in SeqsUpTo(EncMembers, MaxMembers)}

EncObjects ==
    {PlainObj([k \in 1..Len(ms) |-> <<(<<EncKeys[k]>>), ms[k]>>]) :
        ms \in SeqsUpTo(EncMembers, MaxMembers)}

EncInputs ==
    EncMembers \cup {Undefined, Str(<<>>)} \cup EncArrays \cup EncObjects

Pending == [t |-> "pending"]

(***************************************************************************)
(* Encoder: specification                                                  *)
(***************************************************************************)
EncInit ==
    /\ encIn \in EncInputs
    /\ encOut = Pending
    /\ input = <<>>
    /\ pos = 0
    /\ pc = "idle"
    /\ stack = <<>>
    /\ str = <<>>
    /\ ret = Null
    /\ status = "idle"
    /\ err = "none"

\* a call of Encoder.encode
Encode ==
    /\ encOut = Pending
    /\ encOut' = encode(encIn)
    /\ UNCHANGED <<encIn, decVars>>

EncNext == Encode

EncSpec == EncInit /\ [][EncNext]_vars


(***************************************************************************)
(* Parser: characters                                                      *)
(***************************************************************************)
\* one entry per character whose code unit the model needs
CharTable ==
    <<(<<"\t", 9>>), (<<"\n", 10>>), (<<"\f", 12>>), (<<"\r", 13>>),
      (<<" ", 32>>), (<<"\"", 34>>), (<<"+", 43>>), (<<",", 44>>),
      (<<"-", 45>>), (<<".", 46>>), (<<"/", 47>>), (<<"0", 48>>),
      (<<"1", 49>>), (<<"2", 50>>), (<<"4", 52>>), (<<"5", 53>>),
      (<<":", 58>>), (<<"A", 65>>), (<<"E", 69>>), (<<"[", 91>>),
      (<<"\\", 92>>), (<<"]", 93>>), (<<"a", 97>>), (<<"e", 101>>),
      (<<"f", 102>>), (<<"l", 108>>), (<<"n", 110>>), (<<"r", 114>>),
      (<<"s", 115>>), (<<"t", 116>>), (<<"u", 117>>), (<<"x", 120>>),
      (<<"y", 121>>), (<<"z", 122>>), (<<"{", 123>>), (<<"}", 125>>)>>

\* String.fromCharCode(code): the character of the table, and "#<code>" for a
\* code unit the table has no character for; the argument is taken modulo 2^16
fromCharCode(code) ==
    LET unit == code % 65536 IN
    IF \E k \in 1..Len(CharTable) : CharTable[k][2] = unit
    THEN CharTable[CHOOSE k \in 1..Len(CharTable) : CharTable[k][2] = unit][1]
    ELSE "#" \o ToString(unit)

HexDigits ==
    <<"0", "1", "2", "3", "4", "5", "6", "7", "8", "9",
      "a", "b", "c", "d", "e", "f", "A", "B", "C", "D", "E", "F">>

IsHexDigit(c) == \E k \in 1..Len(HexDigits) : HexDigits[k] = c

HexValue(c) ==
    LET k == CHOOSE k \in 1..Len(HexDigits) : HexDigits[k] = c IN
    IF k <= 16 THEN k - 1 ELSE k - 7

DigitValue(c) == (CHOOSE k \in 1..Len(Digit) : Digit[k] = c) - 1

\* the four characters consume() and optionalConsume() skip (lines 410-417)
IsSkipped(c) == c \in {" ", "\t", "\n", "\r"}

\* /\s/.test(c), for the characters of the table (line 135)
IsRegexSpace(c) == c \in {" ", "\t", "\n", "\r", "\f"}

\* the character at index i of s, "" outside it
At(s, i) == IF i >= 1 /\ i <= Len(s) THEN s[i] ELSE ""

\* input.substr(p, n) of a text s
Substr(s, p, n) ==
    IF p >= Len(s) THEN <<>>
    ELSE SubSeq(s, p + 1, IF p + n <= Len(s) THEN p + n ELSE Len(s))

\* the end of the run of hex digits, digits or white space that starts at i
RECURSIVE HexEnd(_, _)
HexEnd(s, i) == IF i <= Len(s) /\ IsHexDigit(s[i]) THEN HexEnd(s, i + 1) ELSE i

RECURSIVE DigitsEnd(_, _)
DigitsEnd(s, i) ==
    IF i <= Len(s) /\ IsDigitChar(s[i]) THEN DigitsEnd(s, i + 1) ELSE i

RECURSIVE SpaceEnd(_, _)
SpaceEnd(s, i) ==
    IF i <= Len(s) /\ IsRegexSpace(s[i]) THEN SpaceEnd(s, i + 1) ELSE i

RECURSIVE HexNumber(_, _, _)
HexNumber(s, i, j) ==
    IF j <= i THEN 0 ELSE 16 * HexNumber(s, i, j - 1) + HexValue(s[j - 1])

RECURSIVE DecNumber(_, _, _)
DecNumber(s, i, j) ==
    IF j <= i THEN 0 ELSE 10 * DecNumber(s, i, j - 1) + DigitValue(s[j - 1])

\* parseInt(s, 16): leading white space, a sign and a 0x prefix are skipped,
\* then the longest run of hex digits is the number; none is NaN
hexPrefix(s) ==
    LET a == SpaceEnd(s, 1)
        signed == a <= Len(s) /\ s[a] \in {"+", "-"}
        b == IF signed THEN a + 1 ELSE a
        prefixed == b + 1 <= Len(s) /\ s[b] = "0" /\ s[b + 1] \in {"x", "X"}
        c == IF prefixed THEN b + 2 ELSE b
        d == HexEnd(s, c)
        n == HexNumber(s, c, d)
    IN  IF d = c THEN [nan |-> TRUE, n |-> 0]
        ELSE [nan |-> FALSE, n |-> IF signed /\ s[a] = "-" THEN 0 - n ELSE n]

parseInt16(s) == CHOOSE r \in {hexPrefix(t) : t \in {s}} : TRUE

RECURSIVE DecPow(_)
DecPow(n) == IF n = 0 THEN 1 ELSE 10 * DecPow(n - 1)

\* a number as mantissa * 10^exponent, in lowest terms
RECURSIVE Normal(_, _)
Normal(m, e) ==
    IF m = 0 THEN <<0, 0>>
    ELSE IF m % 10 = 0 THEN Normal(m \div 10, e + 1)
    ELSE <<m, e>>

JsonNumber(me) == [t |-> "number", m |-> me[1], e |-> me[2]]
JsonObject(map) == [t |-> "object", map |-> map]

\* parseFloat(s) reads the longest prefix of s that is a decimal literal: a
\* sign, digits up to index point, a fraction up to index e and an exponent
FloatDigits(s) == IF At(s, 1) = "-" THEN 2 ELSE 1
FloatPoint(s) == DigitsEnd(s, FloatDigits(s))
FloatE(s, point) ==
    IF At(s, point) = "." THEN DigitsEnd(s, point + 1) ELSE point
FloatExpDigits(s, e) == IF At(s, e + 1) \in {"+", "-"} THEN e + 2 ELSE e + 1
FloatFraction(point, e) == IF e > point THEN e - point - 1 ELSE 0

FloatMantissa(s, point, e) ==
    DecNumber(s, FloatDigits(s), point) * DecPow(FloatFraction(point, e))
        + DecNumber(s, point + 1, e)

FloatExponent(s, e) ==
    IF At(s, e) \notin {"e", "E"} THEN 0
    ELSE IF At(s, e + 1) = "-"
    THEN 0 - DecNumber(s, FloatExpDigits(s, e), DigitsEnd(s, FloatExpDigits(s, e)))
    ELSE DecNumber(s, FloatExpDigits(s, e), DigitsEnd(s, FloatExpDigits(s, e)))

FloatValue(s, point, e) ==
    JsonNumber(Normal(
        IF At(s, 1) = "-"
        THEN 0 - FloatMantissa(s, point, e) ELSE FloatMantissa(s, point, e),
        FloatExponent(s, e) - FloatFraction(point, e)))

parseFloat(s) ==
    CHOOSE v \in {FloatValue(t, point, e) :
                    t \in {s}, point \in {FloatPoint(s)},
                    e \in {FloatE(s, FloatPoint(s))}} : TRUE

(***************************************************************************)
(* Parser: the cursor and the productions that do not recurse              *)
(***************************************************************************)
\* currentToken() with the cursor at p: charAt gives "" at and past the end
currentTokenAt(p) == IF p < Len(input) THEN input[p + 1] ELSE ""

currentToken == currentTokenAt(pos)

\* the while loop of consume (lines 410-417)
RECURSIVE skipFrom(_)
skipFrom(p) == IF IsSkipped(currentTokenAt(p)) THEN skipFrom(p + 1) ELSE p

\* consume(expected) with the cursor at p; expected = "" is consume()
consume(p, expected) ==
    IF expected # "" /\ currentTokenAt(p) # expected
    THEN [ok |-> FALSE, pos |-> p]
    ELSE [ok |-> TRUE, pos |-> skipFrom(p + 1)]

RECURSIVE consumeWhitespace(_)
consumeWhitespace(p) ==
    IF IsRegexSpace(currentTokenAt(p))
    THEN consumeWhitespace(consume(p, "").pos)
    ELSE p

hasNext(p) == currentTokenAt(consumeWhitespace(p)) # ""

\* consume(c) for each character c of a literal, in order
RECURSIVE consumeAll(_, _)
consumeAll(p, chars) ==
    IF chars = <<>> THEN [ok |-> TRUE, pos |-> p]
    ELSE LET r == consume(p, Head(chars)) IN
         IF r.ok THEN consumeAll(r.pos, Tail(chars)) ELSE r

\* the while loop of parseDigits (lines 313-316)
RECURSIVE moreDigits(_, _)
moreDigits(p, s) ==
    IF IsDigitChar(currentTokenAt(p))
    THEN moreDigits(consume(p, "").pos, Append(s, currentTokenAt(p)))
    ELSE [ok |-> TRUE, str |-> s, pos |-> p]

parseDigits(p) ==
    IF currentTokenAt(p) = "0"
    THEN [ok |-> TRUE, str |-> <<"0">>, pos |-> consume(p, "").pos]
    ELSE IF IsDigitChar(currentTokenAt(p))
    THEN moreDigits(consume(p, "").pos, <<currentTokenAt(p)>>)
    ELSE [ok |-> FALSE, str |-> <<>>, pos |-> p]

\* the 'u' case of parseEscape, entered with the cursor at the u
unicodeAt(p1, code) ==
    IF code.nan
    THEN [ok |-> FALSE, c |-> "", pos |-> p1,
          err |-> "Invalid Unicode escape sequence"]
    ELSE [ok |-> TRUE, c |-> fromCharCode(code.n), pos |-> p1 + 4,
          err |-> "none"]

parseUnicode(p) ==
    CHOOSE r \in UNION {{unicodeAt(p1, code) :
                            code \in {parseInt16(Substr(input, p1, 4))}} :
                        p1 \in {consume(p, "").pos}} : TRUE

escapeAt(p1) ==
    LET c == currentTokenAt(p1)
        simple(ch) == [ok |-> TRUE, c |-> ch, pos |-> consume(p1, "").pos,
                       err |-> "none"]
    IN  CASE c \in {"\"", "\\", "/"} -> simple(c)
          [] c = "b" -> simple(fromCharCode(8))
          [] c = "f" -> simple("\f")
          [] c = "n" -> simple("\n")
          [] c = "r" -> simple("\r")
          [] c = "t" -> simple("\t")
          [] c = "u" -> parseUnicode(p1)
          [] OTHER -> [ok |-> FALSE, c |-> "", pos |-> p1,
                       err |-> "Invalid escape sequence"]

parseEscape(p) ==
    CHOOSE r \in {escapeAt(p1) : p1 \in {consume(p, "\\").pos}} : TRUE


(***************************************************************************)
(* Parser: the state machine                                               *)
(***************************************************************************)
Top == stack[Len(stack)]
Pop == SubSeq(stack, 1, Len(stack) - 1)
ReplaceTop(frame) == [stack EXCEPT ![Len(stack)] = frame]

\* pos is an IEEE double: pos++ stops changing it at 2^53.  The model lets it
\* stop PosSlack past the end of the input, from where every read is "" alike
PosCap == Len(input) + PosSlack
Increment(p) == IF p + 1 > PosCap THEN PosCap ELSE p + 1

\* a throw: decode ends with the error
Throw(e) ==
    /\ status' = "fail"
    /\ err' = e
    /\ pc' = "done"

\* parse(), up to its call of parseValue (lines 120-123)
Parse ==
    /\ pc = "parse"
    /\ pos' = consumeWhitespace(pos)
    /\ stack' = <<[fn |-> "parse"]>>
    /\ pc' = "parseValue"
    /\ UNCHANGED <<input, str, ret, status, err, encVars>>

\* parseValue: the switch on the current token (lines 149-187)
ParseValue ==
    /\ pc = "parseValue"
    /\ LET c == currentToken IN
       CASE c = "{" -> pc' = "parseObject" /\ UNCHANGED <<status, err>>
         [] c = "[" -> pc' = "parseArray" /\ UNCHANGED <<status, err>>
         [] c = "\"" -> pc' = "parseString" /\ UNCHANGED <<status, err>>
         [] c = "-" \/ IsDigitChar(c) ->
                pc' = "parseNumber" /\ UNCHANGED <<status, err>>
         [] c = "t" -> pc' = "parseTrue" /\ UNCHANGED <<status, err>>
         [] c = "f" -> pc' = "parseFalse" /\ UNCHANGED <<status, err>>
         [] c = "n" -> pc' = "parseNull" /\ UNCHANGED <<status, err>>
         [] OTHER -> Throw("Invalid JSON value")
    /\ UNCHANGED <<input, pos, stack, str, ret, encVars>>

\* parseObject, up to its loop (lines 190-192)
ParseObject ==
    /\ pc = "parseObject"
    /\ pos' = consume(pos, "{").pos
    /\ stack' = Append(stack, [fn |-> "parseObject", obj |-> <<>>,
                               key |-> <<>>, phase |-> "key"])
    /\ pc' = "objectLoop"
    /\ UNCHANGED <<input, str, ret, status, err, encVars>>

\* the test of parseObject's loop; past it, consume('}') and return obj
ParseObjectLoop ==
    /\ pc = "objectLoop"
    /\ IF currentToken # "}"
       THEN /\ pc' = "parseString"
            /\ UNCHANGED <<pos, stack, ret>>
       ELSE /\ pos' = consume(pos, "}").pos
            /\ ret' = JsonObject(Top.obj)
            /\ stack' = Pop
            /\ pc' = "return"
    /\ UNCHANGED <<input, str, status, err, encVars>>

\* parsePair, from the return of its key on (lines 213-215)
ParsePair ==
    /\ pc = "return"
    /\ Top.fn = "parseObject"
    /\ Top.phase = "key"
    /\ LET r == consume(pos, ":") IN
       IF r.ok
       THEN /\ pos' = r.pos
            /\ stack' = ReplaceTop([Top EXCEPT !.key = ret.s, !.phase = "value"])
            /\ pc' = "parseValue"
            /\ UNCHANGED <<status, err>>
       ELSE /\ Throw("Expected :")
            /\ UNCHANGED <<pos, stack>>
    /\ UNCHANGED <<input, str, ret, encVars>>

\* the body of parseObject's loop from the return of parsePair on
\* (lines 195-201)
ParseObjectPair ==
    /\ pc = "return"
    /\ Top.fn = "parseObject"
    /\ Top.phase = "value"
    /\ LET obj == [k \in DOMAIN Top.obj \cup {Top.key} |->
                      IF k = Top.key THEN ret ELSE Top.obj[k]]
       IN  /\ stack' = ReplaceTop([Top EXCEPT !.obj = obj, !.phase = "key"])
           /\ IF currentToken = ","
              THEN /\ pos' = consume(pos, ",").pos
                   /\ pc' = "objectLoop"
                   /\ UNCHANGED <<status, err>>
              ELSE IF currentToken # "}"
              THEN /\ Throw("Invalid object")
                   /\ UNCHANGED pos
              ELSE /\ pc' = "objectLoop"
                   /\ UNCHANGED <<pos, status, err>>
    /\ UNCHANGED <<input, str, ret, encVars>>

\* parseArray, up to its loop (lines 222-224)
ParseArray ==
    /\ pc = "parseArray"
    /\ pos' = consume(pos, "[").pos
    /\ stack' = Append(stack, [fn |-> "parseArray", arr |-> <<>>])
    /\ pc' = "arrayLoop"
    /\ UNCHANGED <<input, str, ret, status, err, encVars>>

\* the test of parseArray's loop; past it, consume(']') and return arr
ParseArrayLoop ==
    /\ pc = "arrayLoop"
    /\ IF currentToken # "]"
       THEN /\ pc' = "parseValue"
            /\ UNCHANGED <<pos, stack, ret>>
       ELSE /\ pos' = consume(pos, "]").pos
            /\ ret' = Arr(Top.arr)
            /\ stack' = Pop
            /\ pc' = "return"
    /\ UNCHANGED <<input, str, status, err, encVars>>

\* the body of parseArray's loop from the return of parseValue on
\* (lines 228-234)
ParseArrayElement ==
    /\ pc = "return"
    /\ Top.fn = "parseArray"
    /\ stack' = ReplaceTop([Top EXCEPT !.arr = Append(@, ret)])
    /\ IF currentToken = ","
       THEN /\ pos' = consume(pos, ",").pos
            /\ pc' = "arrayLoop"
            /\ UNCHANGED <<status, err>>
       ELSE IF currentToken # "]"
       THEN /\ Throw("Invalid array")
            /\ UNCHANGED pos
       ELSE /\ pc' = "arrayLoop"
            /\ UNCHANGED <<pos, status, err>>
    /\ UNCHANGED <<input, str, ret, encVars>>

\* parseString, up to its loop (lines 243-246)
ParseString ==
    /\ pc = "parseString"
    /\ str' = <<>>
    /\ LET r == consume(pos, "\"") IN
       IF r.ok
       THEN /\ pos' = r.pos
            /\ pc' = "stringLoop"
            /\ UNCHANGED <<status, err>>
       ELSE /\ Throw("Expected \"")
            /\ UNCHANGED pos
    /\ UNCHANGED <<input, stack, ret, encVars>>

\* the test of parseString's loop; past it, consume('"') and return str
ParseStringLoop ==
    /\ pc = "stringLoop"
    /\ IF currentToken # "\""
       THEN /\ pc' = "stringChar"
            /\ UNCHANGED <<pos, ret>>
       ELSE /\ pos' = consume(pos, "\"").pos
            /\ ret' = Str(str)
            /\ pc' = "return"
    /\ UNCHANGED <<input, stack, str, status, err, encVars>>

\* the body of parseString's loop (lines 250-255)
ParseStringChar ==
    /\ pc = "stringChar"
    /\ IF currentToken = "\\"
       THEN \E r \in {parseEscape(pos)} :
            IF r.ok
            THEN /\ str' = Append(str, r.c)
                 /\ pos' = r.pos
                 /\ pc' = "stringLoop"
                 /\ UNCHANGED <<status, err>>
            ELSE /\ Throw(r.err)
                 /\ pos' = r.pos
                 /\ UNCHANGED str
       ELSE /\ str' = IF currentToken = "" THEN str ELSE Append(str, currentToken)
            /\ pos' = Increment(pos)
            /\ pc' = "stringLoop"
            /\ UNCHANGED <<status, err>>
    /\ UNCHANGED <<input, stack, ret, encVars>>

\* parseNumber: the sign and the integer part (lines 265-274); str is its
\* local of that name
ParseNumber ==
    /\ pc = "parseNumber"
    /\ \E d \in {parseDigits(IF currentToken = "-"
                             THEN consume(pos, "-").pos ELSE pos)} :
        /\ pos' = d.pos
        /\ IF d.ok
           THEN /\ str' = (IF currentToken = "-" THEN <<"-">> ELSE <<>>) \o d.str
                /\ pc' = "numberFraction"
                /\ UNCHANGED <<status, err>>
           ELSE /\ Throw("Invalid JSON number")
                /\ UNCHANGED str
    /\ UNCHANGED <<input, stack, ret, encVars>>

\* parseNumber: the fractional part (lines 277-281)
ParseNumberFraction ==
    /\ pc = "numberFraction"
    /\ IF currentToken = "."
       THEN \E d \in {parseDigits(consume(pos, ".").pos)} :
            /\ pos' = d.pos
            /\ IF d.ok
               THEN /\ str' = str \o <<".">> \o d.str
                    /\ pc' = "numberExponent"
                    /\ UNCHANGED <<status, err>>
               ELSE /\ Throw("Invalid JSON number")
                    /\ UNCHANGED str
       ELSE /\ pc' = "numberExponent"
            /\ UNCHANGED <<pos, str, status, err>>
    /\ UNCHANGED <<input, stack, ret, encVars>>

\* the cursor and the lexeme after the e or E and the sign (lines 285-291)
afterExponentMark ==
    LET p1 == consume(pos, "").pos IN
    IF currentTokenAt(p1) \in {"+", "-"}
    THEN [pos |-> consume(p1, "").pos,
          str |-> str \o <<currentToken, currentTokenAt(p1)>>]
    ELSE [pos |-> p1, str |-> Append(str, currentToken)]

\* parseNumber: the exponent and the conversion (lines 284-297)
ParseNumberExponent ==
    /\ pc = "numberExponent"
    /\ IF currentToken \in {"e", "E"}
       THEN \E mark \in {afterExponentMark} :
            \E d \in {parseDigits(mark.pos)} :
            /\ pos' = d.pos
            /\ IF d.ok
               THEN /\ ret' = parseFloat(mark.str \o d.str)
                    /\ pc' = "return"
                    /\ UNCHANGED <<status, err>>
               ELSE /\ Throw("Invalid JSON number")
                    /\ UNCHANGED ret
       ELSE /\ ret' = parseFloat(str)
            /\ pc' = "return"
            /\ UNCHANGED <<pos, status, err>>
    /\ UNCHANGED <<input, stack, str, encVars>>

\* what parseTrue, parseFalse and parseNull share: the literal's characters
\* are consumed one by one and the value v is returned
ParseLiteral(chars, v) ==
    LET r == consumeAll(pos, chars) IN
    /\ pos' = r.pos
    /\ IF r.ok
       THEN /\ ret' = v
            /\ pc' = "return"
            /\ UNCHANGED <<status, err>>
       ELSE /\ Throw("Expected character")
            /\ UNCHANGED ret
    /\ UNCHANGED <<input, stack, str, encVars>>

ParseTrue ==
    /\ pc = "parseTrue"
    /\ ParseLiteral(<<"t", "r", "u", "e">>, Bool(TRUE))

ParseFalse ==
    /\ pc = "parseFalse"
    /\ ParseLiteral(<<"f", "a", "l", "s", "e">>, Bool(FALSE))

ParseNull ==
    /\ pc = "parseNull"
    /\ ParseLiteral(<<"n", "u", "l", "l">>, Null)

\* parse(), from the return of parseValue on (lines 125-131)
ParseFinish ==
    /\ pc = "return"
    /\ Top.fn = "parse"
    /\ pos' = consumeWhitespace(consumeWhitespace(pos))
    /\ IF hasNext(consumeWhitespace(pos))
       THEN Throw("Unexpected token")
       ELSE /\ status' = "ok"
            /\ pc' = "done"
            /\ UNCHANGED err
    /\ UNCHANGED <<input, stack, str, ret, encVars>>


(***************************************************************************)
(* Parser: the texts decode is called with                                 *)
(***************************************************************************)
\* every text of at most MaxLen characters over ShortAlphabet
ShortAlphabet == {"[", "]", ",", "\"", "\\", "u", "1", "0", ".", " ", "z", "-"}
ShortInputs == SeqsUpTo(ShortAlphabet, MaxLen)

\* an opening quote, at most MaxBody characters, closed or left open
BodyAlphabet == {"z", " ", "\n", "\\", "u", "4", "\""}
StringInputs ==
    {<<"\"">> \o body \o close :
        body \in SeqsUpTo(BodyAlphabet, MaxBody), close \in {<<>>, <<"\"">>}}

\* a string that starts with \u and four more characters
UnicodeInputs ==
    {<<"\"", "\\", "u">> \o four \o rest :
        four \in [1..4 -> {"0", "4", "1", "z"}],
        rest \in {<<>>, <<"\"">>, <<"z", "\"">>}}

\* number lexemes, well formed and not
NumberInputs ==
    {sign \o int \o frac \o exp :
        sign \in {<<>>, <<"-">>},
        int \in {<<"0">>, <<"1">>, <<"1", "0">>, <<"0", "1">>},
        frac \in {<<>>, <<".">>, <<".", "5">>, <<".", "0">>, <<".", "0", "5">>,
                  <<".", "5", "0">>, <<".", "0", "0", "1">>},
        exp \in {<<>>, <<"e">>, <<"e", "5">>, <<"e", "0", "5">>,
                 <<"E", "+", "5">>, <<"e", "-", "1", "0">>}}

\* one complete value, white space, one more character
ValueTexts ==
    {<<"{", "}">>, <<"[", "]">>, <<"\"", "z", "\"">>, <<"1">>, <<"0">>,
     <<"1", ".", "5">>, <<"1", "e", "5">>, <<"t", "r", "u", "e">>,
     <<"f", "a", "l", "s", "e">>, <<"n", "u", "l", "l">>, <<"[", "1", "]">>,
     <<"{", "\"", "z", "\"", ":", "1", "}">>}
TrailingInputs ==
    {v \o ws \o <<c>> :
        v \in ValueTexts,
        ws \in {<<>>, <<" ">>, <<"\n", "\t">>},
        c \in {"x", "1", "5", ".", "e", ",", "]", "}", "\"", "t", "[", " "}}

\* arrays and objects of at most two members, with and without a comma
\* before the closing bracket
ElementTexts ==
    {<<"1">>, <<"\"", " ", "z", "\"">>, <<"t", "r", "u", "e">>, <<"[", "]">>,
     <<"[", "1", ",", "]">>, <<"{", "}">>}
PairTexts ==
    {<<"\"", "z", "\"", ":">> \o v : v \in ElementTexts}
        \cup {<<"\"", "y", " ", "\"", " ", ":", "2">>, <<"\"", "z", "\"", "1">>}
Closings(close) == {<<close>>, <<",", close>>, <<" ", ",", " ", close>>}
ContainerOf(open, members, close) ==
    {<<open>> \o tail : tail \in Closings(close)}
    \cup {<<open>> \o m \o tail : m \in members, tail \in Closings(close)}
    \cup {<<open>> \o m \o <<",">> \o n \o tail :
            m \in members, n \in members, tail \in Closings(close)}
ContainerInputs ==
    ContainerOf("[", ElementTexts, "]") \cup ContainerOf("{", PairTexts, "}")

\* the literals, cut short, spaced out and misspelt
LiteralTexts ==
    {<<"t", "r", "u", "e">>, <<"f", "a", "l", "s", "e">>, <<"n", "u", "l", "l">>}
LiteralInputs ==
    UNION {{SubSeq(w, 1, k) \o tail :
                k \in 1..Len(w), tail \in {<<>>, <<"x">>, <<" ">>}} :
            w \in LiteralTexts}
    \cup {<<w[1], " ">> \o Tail(w) : w \in LiteralTexts}

Inputs ==
    ShortInputs \cup StringInputs \cup UnicodeInputs \cup NumberInputs
        \cup TrailingInputs \cup ContainerInputs \cup LiteralInputs

(***************************************************************************)
(* Parser: specification                                                   *)
(***************************************************************************)
\* before the call of decode
Init ==
    /\ input = <<>>
    /\ pos = 0
    /\ pc = "idle"
    /\ stack = <<>>
    /\ str = <<>>
    /\ ret = Null
    /\ status = "run"
    /\ err = "none"
    /\ encIn = Null
    /\ encOut = Pending

\* EJson.decode(json): a fresh Parser on json, about to run parse()
Decode ==
    /\ pc = "idle"
    /\ input' \in Inputs
    /\ pos' = 0
    /\ pc' = "parse"
    /\ UNCHANGED <<stack, str, ret, status, err, encVars>>

Next ==
    \/ Decode
    \/ Parse
    \/ ParseValue
    \/ ParseObject
    \/ ParseObjectLoop
    \/ ParsePair
    \/ ParseObjectPair
    \/ ParseArray
    \/ ParseArrayLoop
    \/ ParseArrayElement
    \/ ParseString
    \/ ParseStringLoop
    \/ ParseStringChar
    \/ ParseNumber
    \/ ParseNumberFraction
    \/ ParseNumberExponent
    \/ ParseTrue
    \/ ParseFalse
    \/ ParseNull
    \/ ParseFinish

Spec == Init /\ [][Next]_vars

\* the call runs on one thread with nothing to wait for: a step that can be
\* taken is taken
FairSpec == Spec /\ WF_vars(Next)


(***************************************************************************)
(* Properties of encode                                                    *)
(***************************************************************************)
RECURSIVE Join(_, _)
Join(pieces, sep) ==
    IF pieces = <<>> THEN <<>>
    ELSE IF Len(pieces) = 1 THEN pieces[1]
    ELSE pieces[1] \o sep \o Join(Tail(pieces), sep)

IsScalar(v) == v.t \in {"null", "number", "string", "boolean"}
IsOrdinaryCallable(v) == v.t = "function" /\ ~v.num

\* values the encoder has an encoding for: scalars other than NaN, ordinary
\* callables resolving to such values, and containers of such values
RECURSIVE Encodable(_)
Encodable(v) ==
    CASE IsScalar(v) -> TRUE
      [] v.t = "date" -> TRUE
      [] v.t = "function" -> ~v.num /\ Encodable(v.r)
      [] v.t = "array" -> \A k \in 1..Len(v.items) : Encodable(v.items[k])
      [] v.t = "object" ->
            \A k \in 1..Len(v.entries) : Encodable(v.entries[k][2])
      [] OTHER -> FALSE

IsContainer(v) == v.t = "array" \/ (v.t = "object" /\ v.toStr = ObjectObject)

EncDone == encOut # Pending

\* the members of a container, and the text before each member's encoding
MembersOf(v) ==
    IF v.t = "array" THEN v.items
    ELSE [k \in 1..Len(v.entries) |-> v.entries[k][2]]
PrefixOf(v, k) ==
    IF v.t = "array" THEN <<>>
    ELSE <<"\"">> \o v.entries[k][1] \o <<"\"", ":">>
OpenOf(v) == IF v.t = "array" THEN <<"[">> ELSE <<"{">>
CloseOf(v) == IF v.t = "array" THEN <<"]">> ELSE <<"}">>

\* a container's text: its brackets around its members' texts (Piece),
\* one comma between neighbours
Bracketed(v, Piece(_)) ==
    OpenOf(v)
        \o Join([k \in 1..Len(MembersOf(v)) |->
                    PrefixOf(v, k) \o Piece(MembersOf(v)[k])], <<",">>)
        \o CloseOf(v)

CodePiece(m) == ToStr(encodeValue(m))

\* C3: encode throws InvalidInput for a top-level null, number, string,
\* boolean or callable, and returns text for a top-level array or mapping
C3_TopLevelOnlyContainers ==
    EncDone =>
        /\ (IsScalar(encIn) \/ encIn.t \in {"nan", "undefined", "function"})
              => encOut = Thrown("InvalidInput")
        /\ (IsContainer(encIn) /\ Encodable(encIn)) => encOut.t = "text"

\* C4: the text of an array or mapping of n >= 0 encodable members is its
\* opening bracket, the members separated by n-1 commas, and the matching
\* closing bracket; for n = 0 that is "[]" or "{}"
C4_BracketsAndCommas ==
    (EncDone /\ IsContainer(encIn) /\ Encodable(encIn)) =>
        /\ encOut.t = "text"
        /\ encOut.s = Bracketed(encIn, CodePiece)

QuotedBoolean(m) ==
    IF m.t = "boolean" THEN withDoubleQuotes(ToStr(m)) ELSE CodePiece(m)

HasMember(v, Test(_)) == \E k \in 1..Len(MembersOf(v)) : Test(MembersOf(v)[k])
IsBoolean(m) == m.t = "boolean"

\* C5: a boolean member of an array or mapping is encoded as the quoted
\* string "true" or "false"
C5_BooleanQuoted ==
    (EncDone /\ IsContainer(encIn) /\ Encodable(encIn)
        /\ HasMember(encIn, IsBoolean)) =>
        /\ encOut.t = "text"
        /\ encOut.s = Bracketed(encIn, QuotedBoolean)

\* arrays of scalars and of ordinary callables resolving to a scalar, with
\* at least one such callable
IsScalarCallable(m) == IsOrdinaryCallable(m) /\ IsScalar(m.r)
CallableArray(v) ==
    /\ v.t = "array"
    /\ \A k \in 1..Len(v.items) : IsScalar(v.items[k]) \/ IsScalarCallable(v.items[k])
    /\ HasMember(v, IsScalarCallable)

WithoutCallables(v) == Arr(SelectSeq(v.items, IsScalar))
ResultPiece(m) == IF m.t = "function" THEN CodePiece(m.r) ELSE CodePiece(m)

OneCallTwoThree == Arr(<<Num(1), Fn(Num(2), FALSE), Num(3)>>)

\* C6 as stated: an array element that is a callable resolving to a scalar
\* is dropped from the text, with no placeholder and no extra comma
C6_CallableDropped ==
    (EncDone /\ CallableArray(encIn)) =>
        /\ encOut.t = "text"
        /\ encOut.s = Bracketed(WithoutCallables(encIn), CodePiece)

\* C6 as amended: an array element that is an ordinary callable resolving to
\* a scalar is encoded as its result is, in its place, with the commas of any
\* other element; encode([1, () => 2, 3]) is "[1,2,3]"
C6_CallableResolved ==
    /\ (EncDone /\ CallableArray(encIn)) =>
            /\ encOut.t = "text"
            /\ encOut.s = Bracketed(encIn, ResultPiece)
    /\ (EncDone /\ encIn = OneCallTwoThree) =>
            encOut = Text(<<"[", "1", ",", "2", ",", "3", "]">>)

C6_CallableResolvedWitness ==
    /\ encIn = OneCallTwoThree
    /\ encOut = Text(<<"[", "1", ",", "2", ",", "3", "]">>)


(***************************************************************************)
(* The JSON grammar, as the properties of decode read it.  Indices are     *)
(* 1-based; an end is the index after the last character.                  *)
(***************************************************************************)
RECURSIVE WsEnd(_, _)
WsEnd(s, i) == IF IsSkipped(At(s, i)) THEN WsEnd(s, i + 1) ELSE i

AllHex(s, i, j) == j <= Len(s) + 1 /\ \A k \in i..(j - 1) : IsHexDigit(s[k])

Unescaped(c) ==
    CASE c = "b" -> fromCharCode(8)
      [] c = "f" -> "\f"
      [] c = "n" -> "\n"
      [] c = "r" -> "\r"
      [] c = "t" -> "\t"
      [] OTHER -> c

\* the string literal whose characters start at i (after the opening quote):
\* its end (0 if it is malformed or not closed) and its characters, decoded
RECURSIVE LiteralFrom(_, _, _)
LiteralFrom(s, i, acc) ==
    CASE i > Len(s) -> [end |-> 0, val |-> acc]
      [] s[i] = "\"" -> [end |-> i + 1, val |-> acc]
      [] s[i] = "\\" ->
            IF At(s, i + 1) \in {"\"", "\\", "/", "b", "f", "n", "r", "t"}
            THEN LiteralFrom(s, i + 2, Append(acc, Unescaped(s[i + 1])))
            ELSE IF At(s, i + 1) = "u" /\ AllHex(s, i + 2, i + 6)
            THEN LiteralFrom(s, i + 6,
                     Append(acc, fromCharCode(HexNumber(s, i + 2, i + 6))))
            ELSE [end |-> 0, val |-> acc]
      [] OTHER -> LiteralFrom(s, i + 1, Append(acc, s[i]))

Literal(s, i) ==
    IF At(s, i) = "\"" THEN LiteralFrom(s, i + 1, <<>>)
    ELSE [end |-> 0, val |-> <<>>]

\* s is exactly one string literal
IsLiteral(s) == Literal(s, 1).end = Len(s) + 1

\* the end of the digits 0-9 from i on, 0 if there is none
SomeDigitsEnd(s, i) == IF DigitsEnd(s, i) > i THEN DigitsEnd(s, i) ELSE 0

\* s is exactly one number: optional '-', then '0' or a digit 1-9 followed by
\* digits, then optionally '.' and digits, then optionally e or E, a sign and
\* digits
IsNumberLexeme(s) ==
    LET a == IF At(s, 1) = "-" THEN 2 ELSE 1
        b == IF At(s, a) = "0" THEN a + 1 ELSE SomeDigitsEnd(s, a)
        c == IF b # 0 /\ At(s, b) = "." THEN SomeDigitsEnd(s, b + 1) ELSE b
        d == IF c # 0 /\ At(s, c) \in {"e", "E"}
             THEN SomeDigitsEnd(s, IF At(s, c + 1) \in {"+", "-"}
                                   THEN c + 2 ELSE c + 1)
             ELSE c
    IN  d = Len(s) + 1

StartsWith(s, i, w) == i + Len(w) - 1 <= Len(s) /\ SubSeq(s, i, i + Len(w) - 1) = w

\* the ends of the JSON values that start at i
RECURSIVE ValueEnds(_, _)
RECURSIVE ArrayEnds(_, _)
RECURSIVE ObjectEnds(_, _)

\* from the start of an array element
ArrayEnds(s, i) ==
    UNION {LET k == WsEnd(s, e) IN
           CASE At(s, k) = "]" -> {k + 1}
             [] At(s, k) = "," -> ArrayEnds(s, WsEnd(s, k + 1))
             [] OTHER -> {} : e \in ValueEnds(s, i)}

\* from the start of an object pair
ObjectEnds(s, i) ==
    LET key == Literal(s, i).end
        colon == WsEnd(s, key)
    IN  IF key = 0 \/ At(s, colon) # ":" THEN {}
        ELSE UNION {LET k == WsEnd(s, e) IN
                    CASE At(s, k) = "}" -> {k + 1}
                      [] At(s, k) = "," -> ObjectEnds(s, WsEnd(s, k + 1))
                      [] OTHER -> {} : e \in ValueEnds(s, WsEnd(s, colon + 1))}

ValueEnds(s, i) ==
    CASE At(s, i) = "[" ->
            IF At(s, WsEnd(s, i + 1)) = "]" THEN {WsEnd(s, i + 1) + 1}
            ELSE ArrayEnds(s, WsEnd(s, i + 1))
      [] At(s, i) = "{" ->
            IF At(s, WsEnd(s, i + 1)) = "}" THEN {WsEnd(s, i + 1) + 1}
            ELSE ObjectEnds(s, WsEnd(s, i + 1))
      [] At(s, i) = "\"" -> {Literal(s, i).end} \ {0}
      [] StartsWith(s, i, <<"t", "r", "u", "e">>) -> {i + 4}
      [] StartsWith(s, i, <<"f", "a", "l", "s", "e">>) -> {i + 5}
      [] StartsWith(s, i, <<"n", "u", "l", "l">>) -> {i + 4}
      [] OTHER -> {j \in (i + 1)..(Len(s) + 1) : IsNumberLexeme(SubSeq(s, i, j - 1))}

\* s is one JSON value with white space around it
IsJsonText(s) == \E e \in ValueEnds(s, WsEnd(s, 1)) : WsEnd(s, e) = Len(s) + 1

\* s is one JSON value, white space, and more that is not white space, and
\* is not a JSON text read any other way
HasTrailingCharacters(s) ==
    /\ \E e \in ValueEnds(s, WsEnd(s, 1)) : WsEnd(s, e) <= Len(s)
    /\ ~IsJsonText(s)

\* whether index i of s lies inside a string literal, scanning from k
RECURSIVE InsideString(_, _, _, _)
InsideString(s, k, i, inside) ==
    IF k >= i THEN inside
    ELSE IF inside /\ s[k] = "\\" THEN InsideString(s, k + 2, i, TRUE)
    ELSE IF s[k] = "\"" THEN InsideString(s, k + 1, i, ~inside)
    ELSE InsideString(s, k + 1, i, inside)

\* a comma outside every string, then white space, then '}' or ']'
HasTrailingComma(s) ==
    \E i \in 1..Len(s) :
        /\ s[i] = ","
        /\ ~InsideString(s, 1, i, FALSE)
        /\ At(s, WsEnd(s, i + 1)) \in {"}", "]"}

Done == pc = "done"

(***************************************************************************)
(* Properties of decode                                                    *)
(***************************************************************************)
\* C1: decode terminates on every input: every call ends by returning a
\* value or by raising an error, an unclosed string literal included
C1_DecodeTerminates == <>Done

\* C2: decode fails on one complete JSON value followed, after optional
\* white space, by a further character that is not white space
C2_TrailingCharactersRejected ==
    (Done /\ HasTrailingCharacters(input)) => status = "fail"

\* C7: decode returns exactly the characters between the quotes of a string
\* literal, escapes decoded, whether the literal is the whole text, an array
\* element, an object key or an object value
C7_StringCharactersKept ==
    /\ (Done /\ IsLiteral(input)) =>
            (status = "ok" /\ ret = Str(Literal(input, 1).val))
    /\ \A lit \in {input} \cup {SubSeq(input, 2, Len(input) - 1)} :
        (Done /\ IsLiteral(lit) /\ input = <<"[">> \o lit \o <<"]">>) =>
            (status = "ok" /\ ret = Arr(<<Str(Literal(lit, 1).val)>>))
    /\ \A k \in 2..Len(input) :
        LET key == SubSeq(input, 2, k - 1)
            val == SubSeq(input, k + 1, Len(input) - 1)
        IN  (Done /\ IsLiteral(key) /\ IsLiteral(val)
                /\ input = <<"{">> \o key \o <<":">> \o val \o <<"}">>) =>
            (status = "ok"
                /\ ret = JsonObject(Literal(key, 1).val
                                        :> Str(Literal(val, 1).val)))

\* C8: decode accepts every number lexeme (optional '-', integer part,
\* optional fraction of one or more digits, optional exponent) and returns
\* the value of the whole lexeme
C8_NumberLexemesAccepted ==
    (Done /\ IsNumberLexeme(input)) =>
        (status = "ok" /\ ret = parseFloat(input))

\* C9: decode fails on every input in which a comma is followed, white space
\* aside, by the closing '}' or ']'
C9_TrailingCommaRejected ==
    (Done /\ HasTrailingComma(input)) => status = "fail"

\* the text is a string literal opened by a \u escape
StartsWithUnicodeEscape == StartsWith(input, 1, <<"\"", "\\", "u">>)
FourHex == AllHex(input, 4, 8)
\* a quote among the four characters after \u, and the offset of the first
QuoteInEscape == \E k \in 4..7 : At(input, k) = "\""
FirstQuoteOffset ==
    (CHOOSE k \in 4..7 :
        At(input, k) = "\"" /\ \A j \in 4..(k - 1) : At(input, j) # "\"") - 1

\* C10: in a string, \u and four hex digits decode to the code unit they
\* spell and exactly those four characters are consumed; \u and anything else
\* makes decode fail, and the cursor never passes a quote that stands among
\* the four characters after \u
C10_UnicodeEscape ==
    StartsWithUnicodeEscape =>
        /\ (Done /\ FourHex /\ IsLiteral(input)) =>
                (status = "ok" /\ ret = Str(Literal(input, 1).val))
        /\ (Done /\ ~FourHex) => status = "fail"
        /\ QuoteInEscape => pos <= FirstQuoteOffset

====
